---- MODULE Spec2Model ----
(***************************************************************************)
(* Model of oracle.py: the main program that builds the clients of each   *)
(* account and starts one monitor thread per configured server            *)
(* (monitor_server), the OCIAPI object a monitor drives (get_ip,          *)
(* change_ip, record_ip, read_ip) and the remote reachability check       *)
(* (CheckConnection.remote_check).                                        *)
(*                                                                         *)
(* The OCI control plane and the remote check service are the             *)
(* environment: every call to them either raises or returns, and what it  *)
(* returns is drawn from the provider state kept in vnic_public_ip.       *)
(* A monitor takes one step per external call or sleep.  The reads and     *)
(* writes of the history file are taken to succeed.  Line 314 (the sleep   *)
(* of the loop's outer handler) has no step: get_ip and remote_check       *)
(* catch their own exceptions and both change_ip calls are wrapped, so no  *)
(* exception of a modelled call reaches that handler.                      *)
(***************************************************************************)
EXTENDS Integers, Sequences, FiniteSets, TLC

\* ---------------------------------------------------------------- bounds
\* Number of distinct public addresses the provider can hand out.
NumAddrs == 2
\* Number of configured servers.
NumEndpoints == 2
\* Longest response body of the check service, in tokens.
MaxBody == 2
\* Rotations followed in a run that keeps the log of assigned addresses.
MaxRotations == 3
\* Number of configured accounts.
NumAccounts == 2

\* ----------------------------------------------------- program constants
\* Python's None, as get_ip returns it and as vnic.public_ip reads when unset.
None == 0
\* The line terminator record_ip writes after each address.
NL == -1
\* instance_id[-8:] names the history file.
SuffixLen == 8
\* The one status code remote_check accepts.
HTTP_OK == 200
\* The monitored port of the default configuration.
DefaultPort == 443
\* The positional arguments monitor_server hands to OCIAPI(...) at line 259.
OCIAPI_CallArgs == 4
\* The parameters OCIAPI.__init__ declares after self (line 122).
OCIAPI_InitParams == 3

Addrs == 1..NumAddrs
Endpoints == 1..NumEndpoints
Accounts == 1..NumAccounts

\* ------------------------------------------------------- configuration
\* The configuration load_config returns; no statement of the program
\* writes it.
VARIABLE config

\* An instance id: a string one character longer than the suffix that names
\* the history file, with first character p and last character s.
InstanceId(p, s) ==
    [i \in 1..(SuffixLen + 1) |-> IF i = 1 THEN p ELSE IF i = SuffixLen + 1 THEN s ELSE 0]

\* The instance ids of the servers differ in their first character; the last
\* characters are the server's own or the same for several servers.
InstanceIds ==
    {f \in [Endpoints -> {InstanceId(p, s) : p \in Endpoints, s \in {0} \cup Endpoints}] :
       \A e \in Endpoints : f[e] \in {InstanceId(e, e), InstanceId(e, 0)}}

\* config["global"]["check_server_url"] ("" when unset), and per server the
\* account that lists it, server_config["vnic_id"] ("" when left to be looked
\* up) and server_config["instance_id"].
Configs ==
    [check_server_url : {"", "url"},
     account : [Endpoints -> Accounts],
     vnic_id : [Endpoints -> {"", "vnic"}],
     instance_id : InstanceIds]

\* Every server fully configured, all under the first account, no two
\* instance ids with the same suffix.
DefaultConfig ==
    [check_server_url |-> "url",
     account |-> [e \in Endpoints |-> 1],
     vnic_id |-> [e \in Endpoints |-> "vnic"],
     instance_id |-> [e \in Endpoints |-> InstanceId(e, e)]]

\* server_config["instance_id"]
instance_id(e) == config.instance_id[e]

\* server_config["port"]
port(e) == DefaultPort

\* Python's s[-n:]
LastN(s, n) == IF Len(s) <= n THEN s ELSE SubSeq(s, Len(s) - n + 1, Len(s))

\* f"ip_history_oci_{self.instance_id[-8:]}.txt": the name is its variable part.
ip_history_file(e) == LastN(instance_id(e), SuffixLen)

FileNames == {ip_history_file(e) : e \in Endpoints}

\* ------------------------------------------------------- history file
\* A file is [exists, data]; data is the flat text, one token per address
\* (an address is a one-token string) and NL for "\n".
NoFile == [exists |-> FALSE, data |-> <<>>]

\* str.strip() of a line of the file: leading and trailing NL removed.
RECURSIVE StripLine(_)
StripLine(s) ==
    IF s = <<>> THEN <<>>
    ELSE IF Head(s) = NL THEN StripLine(Tail(s))
    ELSE IF s[Len(s)] = NL THEN StripLine(SubSeq(s, 1, Len(s) - 1))
    ELSE s

\* f.readlines(): the text cut after every NL; a last line without NL is kept.
RECURSIVE ReadLines(_, _)
ReadLines(data, cur) ==
    IF data = <<>> THEN (IF cur = <<>> THEN <<>> ELSE <<cur>>)
    ELSE IF Head(data) = NL THEN <<Append(cur, NL)>> \o ReadLines(Tail(data), <<>>)
    ELSE ReadLines(Tail(data), Append(cur, Head(data)))

\* read_ip without line.strip(): each line keeps its "\n".
read_ip_nostrip(f) ==
    IF ~f.exists THEN <<>> ELSE ReadLines(f.data, <<>>)

\* read_ip's return value: the stripped lines, [] when the file is missing.
read_ip(f) ==
    IF ~f.exists THEN <<>>
    ELSE LET ls == ReadLines(f.data, <<>>)
         IN  [i \in 1..Len(ls) |-> StripLine(ls[i])]

\* read_ip's effect on the file: a missing file is created empty.
read_ip_touch(f) == IF ~f.exists THEN [exists |-> TRUE, data |-> <<>>] ELSE f

\* The Python string of an address.
Str(ip) == <<ip>>

InList(x, l) == \E i \in 1..Len(l) : l[i] = x

\* record_ip opening the file with "w" instead of "a".
record_ip_truncate(f, ip) ==
    IF ip # None /\ ~InList(Str(ip), read_ip(f))
    THEN [exists |-> TRUE, data |-> Str(ip) \o <<NL>>]
    ELSE IF ip # None THEN read_ip_touch(f) ELSE f

\* record_ip that reads the history and writes nothing.
record_ip_read_only(f, ip) == IF ip # None THEN read_ip_touch(f) ELSE f

\* record_ip without the membership test.
record_ip_nodedup(f, ip) ==
    IF ip # None
    THEN [exists |-> TRUE, data |-> read_ip_touch(f).data \o Str(ip) \o <<NL>>]
    ELSE f

\* record_ip: `if ip and ip not in self.read_ip()` then append ip + "\n".
\* read_ip is not called when ip is falsy (short-circuit).
record_ip(f, ip) ==
    IF ip # None /\ ~InList(Str(ip), read_ip(f))
    THEN [exists |-> TRUE, data |-> read_ip_touch(f).data \o Str(ip) \o <<NL>>]
    ELSE IF ip # None THEN read_ip_touch(f) ELSE f

\* ------------------------------------------------------- remote_check
\* What requests.get can produce: an exception (timeout, connection error),
\* or a response with a status code and a body.  A body is a string over
\* the tokens "True", "False", " " (whitespace) and "x" (anything else).
BodyTokens == {"True", "False", " ", "x"}
Bodies == UNION {[1..n -> BodyTokens] : n \in 0..MaxBody}
StatusCodes == {HTTP_OK, 500}
Responses ==
    [raised : {FALSE}, status : StatusCodes, body : Bodies]
    \cup [raised : {TRUE}, status : {0}, body : {<<>>}]

\* response.text.strip()
RECURSIVE strip(_)
strip(s) ==
    IF s = <<>> THEN <<>>
    ELSE IF Head(s) = " " THEN strip(Tail(s))
    ELSE IF s[Len(s)] = " " THEN strip(SubSeq(s, 1, Len(s) - 1))
    ELSE s

\* remote_check without the test of the status code.
remote_check_any_status(resp) ==
    IF resp.raised THEN FALSE
    ELSE IF strip(resp.body) = <<"True">> THEN TRUE ELSE FALSE

\* remote_check: True only for status 200 and stripped text "True"; every
\* other response and every exception give False.
remote_check(resp) ==
    IF resp.raised THEN FALSE
    ELSE IF resp.status = HTTP_OK
         THEN (IF strip(resp.body) = <<"True">> THEN TRUE
               ELSE IF strip(resp.body) = <<"False">> THEN FALSE
               ELSE FALSE)
         ELSE FALSE

\* ------------------------------------------------------------- state
VARIABLES
    main,            \* the main thread: its statement, account and join index
    clients,         \* clients[a]: how init_oci_clients ended for account a
    threads,         \* the list `threads` of the main program
    attached,        \* provider: server e's instance has an ATTACHED VNIC
    pc,              \* pc[e]: the statement monitor e executes next
    ip,              \* ip[e]: monitor_server's local `ip`
    new_ip,          \* new_ip[e]: change_ip's local `new_ip`
    vnic,            \* vnic[e]: change_ip's local `vnic` (its public_ip)
    ret,             \* ret[e]: the call site change_ip returns to
    vnic_public_ip,  \* provider: the public address of server e's VNIC
    files,           \* the history files, by name
    trace,           \* trace[e]: the external actions of e's current cycle
    alloc_ok,        \* alloc_ok[e]: some create_public_ip of e has returned
    tracking,        \* whether the run keeps the log `assigned`
    assigned         \* assigned[e]: the new_ip of each change_ip that returned

vars == <<pc, ip, new_ip, vnic, ret, vnic_public_ip, files, trace,
          alloc_ok, tracking, assigned, config, main, clients, threads, attached>>

\* The main thread's state, the configuration and the attachments: no step
\* of the polling loop touches them.
sup == <<config, main, clients, threads, attached>>

\* What no step of a monitor changes unless it says so.
obs == <<alloc_ok, tracking, assigned, sup>>

\* One external action of a monitor: the operation, the address it was about,
\* the port handed over, whether the call returned (for the checks: the
\* result), and the provider's answer where there are several.
Ev(op, a, p, ok, out) == [op |-> op, ip |-> a, port |-> p, ok |-> ok, out |-> out]

Log(e, ev) == [trace EXCEPT ![e] = Append(@, ev)]

\* The history of server e as read_ip returns it, as addresses.
History(e) ==
    LET l == read_ip(files[ip_history_file(e)])
    IN  [i \in 1..Len(l) |-> IF l[i] = <<>> THEN None ELSE l[i][1]]

\* ----------------------------------------------------- monitor_server
\* The branch of line 275 dropped: every cycle goes to the check.
AfterFetch_check_first(a) == "check"

\* Line 275: `if not ip` sends the cycle to change_ip, otherwise to the check.
AfterFetch(a) == IF a = None THEN "ci_get_vnic" ELSE "check"

\* The test of line 290 inverted.
AfterCheck_inverted(reachable) == IF reachable THEN "ci_get_vnic" ELSE "sleep"

\* Lines 290-295: a reachable server ends the cycle, anything else rotates.
AfterCheck(reachable) == IF reachable THEN "sleep" ELSE "ci_get_vnic"

\* A re-check that rotates again when the new address fails too.
AfterRecheck_rotate(reachable) == IF reachable THEN "sleep" ELSE "ci_get_vnic"

\* Lines 302-310: whatever the re-check of the new address says, sleep.
AfterRecheck(reachable) == "sleep"

\* The handler of line 280 with `continue` but no sleep.
AfterChangeIpRaise_no_sleep(r) == "fetch"

\* A handler that calls change_ip again at once.
AfterChangeIpRaise_retry(r) == "ci_get_vnic"

\* Lines 280-283 and 306-310: a change_ip that raised is logged, then the
\* monitor sleeps round_time (and `continue`s, at the first call site).
AfterChangeIpRaise(r) == "sleep"

\* Lines 278 and 295: where a change_ip that returned goes on.
AfterChangeIpReturn(r) == IF r = "assign" THEN "check" ELSE "recheck"

\* Line 274, get_ip (177-191): get_vnic either raises, and get_ip returns
\* None, or gives the VNIC, whose public_ip (None when unset) is returned.
get_ip(e) ==
    /\ pc[e] = "fetch"
    /\ \E ok \in BOOLEAN :
         LET a == IF ok THEN vnic_public_ip[e] ELSE None
         IN  /\ ip' = [ip EXCEPT ![e] = a]
             /\ trace' = [trace EXCEPT ![e] = <<Ev("get_ip", a, 0, ok, "")>>]
             /\ pc' = [pc EXCEPT ![e] = AfterFetch(a)]
             /\ ret' = [ret EXCEPT ![e] = IF AfterFetch(a) = "ci_get_vnic"
                                          THEN "assign" ELSE "-"]
    /\ UNCHANGED <<new_ip, vnic, vnic_public_ip, files, obs>>

\* Line 288: remote_check(ip, oci.port, check_server_url).
check(e) ==
    /\ pc[e] = "check"
    /\ \E resp \in Responses :
         LET reachable == remote_check(resp)
         IN  /\ trace' = Log(e, Ev("remote_check", ip[e], port(e), reachable, ""))
             /\ pc' = [pc EXCEPT ![e] = AfterCheck(reachable)]
             /\ ret' = [ret EXCEPT ![e] = IF AfterCheck(reachable) = "ci_get_vnic"
                                          THEN "rotate" ELSE "-"]
    /\ UNCHANGED <<ip, new_ip, vnic, vnic_public_ip, files, obs>>

\* Line 300: the re-check of the address change_ip returned.
recheck(e) ==
    /\ pc[e] = "recheck"
    /\ \E resp \in Responses :
         LET reachable == remote_check(resp)
         IN  /\ trace' = Log(e, Ev("recheck", new_ip[e], port(e), reachable, ""))
             /\ pc' = [pc EXCEPT ![e] = AfterRecheck(reachable)]
             /\ ret' = [ret EXCEPT ![e] = IF AfterRecheck(reachable) = "ci_get_vnic"
                                          THEN "rotate" ELSE "-"]
    /\ UNCHANGED <<ip, new_ip, vnic, vnic_public_ip, files, obs>>

\* Lines 282, 310: time.sleep(round_time), then the next iteration.  The
\* locals are dead from here on: each is assigned again before it is read.
sleep(e) ==
    /\ pc[e] = "sleep"
    /\ trace' = Log(e, Ev("sleep", None, 0, TRUE, ""))
    /\ pc' = [pc EXCEPT ![e] = "fetch"]
    /\ ip' = [ip EXCEPT ![e] = None]
    /\ new_ip' = [new_ip EXCEPT ![e] = None]
    /\ vnic' = [vnic EXCEPT ![e] = None]
    /\ ret' = [ret EXCEPT ![e] = "-"]
    /\ UNCHANGED <<vnic_public_ip, files, obs>>

\* Line 259: OCIAPI(server_config, compute_client, network_client,
\* account_name).  A call with more positional arguments than __init__
\* declares raises TypeError before __init__ runs; the handler of line 316
\* logs it and monitor_server returns.  A well-formed call goes on to
\* __init__ (lines 123-135).
monitor_server_start(e) ==
    /\ pc[e] = "start"
    /\ pc' = [pc EXCEPT ![e] = IF OCIAPI_CallArgs = OCIAPI_InitParams
                               THEN "oci_init" ELSE "init_failed"]
    /\ UNCHANGED <<ip, new_ip, vnic, ret, vnic_public_ip, files, trace, obs>>

\* How a monitor thread ends: the handler of line 316 after an exception of
\* the construction, or the `return` of line 269.
Terminal == {"init_failed", "exited"}

\* Lines 122-135, OCIAPI.__init__ under a call that binds its parameters: a
\* configured vnic_id is kept; an empty one is looked up by
\* _get_primary_vnic_id (138-156), which raises when list_vnic_attachments
\* raises or shows no ATTACHED attachment.  The exception leaves __init__
\* and monitor_server's handler (line 316) logs it.
OCIAPI_init(e) ==
    /\ pc[e] = "oci_init"
    /\ IF config.vnic_id[e] # ""
       THEN pc' = [pc EXCEPT ![e] = "url_check"]
       ELSE \E out \in {"listed", "error"} :
              pc' = [pc EXCEPT ![e] = IF out = "listed" /\ attached[e]
                                      THEN "url_check" ELSE "init_failed"]
    /\ UNCHANGED <<ip, new_ip, vnic, ret, vnic_public_ip, files, trace, obs>>

\* A monitor that enters its loop whatever check_server_url is.
AfterUrlCheck_always_loop(url) == "fetch"

\* Lines 266-269: an empty check_server_url is logged and monitor_server
\* returns; otherwise the loop of line 271 is entered.
AfterUrlCheck(url) == IF url = "" THEN "exited" ELSE "fetch"

\* Lines 262-269: the log line, then the test of check_server_url.
url_check(e) ==
    /\ pc[e] = "url_check"
    /\ pc' = [pc EXCEPT ![e] = AfterUrlCheck(config.check_server_url)]
    /\ UNCHANGED <<ip, new_ip, vnic, ret, vnic_public_ip, files, trace, obs>>

\* ---------------------------------------------------------- change_ip
\* Lines 251-253: any exception inside change_ip is logged and re-raised to
\* the caller, whose handler sends the monitor on.
Raise(e) == [pc EXCEPT ![e] = AfterChangeIpRaise(ret[e])]

\* Line 199: get_vnic at the start of change_ip; line 203 branches on
\* vnic.public_ip.
change_ip_get_vnic(e) ==
    /\ pc[e] = "ci_get_vnic"
    /\ \E ok \in BOOLEAN :
         IF ok
         THEN /\ vnic' = [vnic EXCEPT ![e] = vnic_public_ip[e]]
              /\ pc' = [pc EXCEPT ![e] = IF vnic_public_ip[e] # None
                                         THEN "ci_list" ELSE "ci_create"]
              /\ trace' = Log(e, Ev("change_ip", vnic_public_ip[e], 0, TRUE, ""))
         ELSE /\ vnic' = vnic
              /\ pc' = Raise(e)
              /\ trace' = Log(e, Ev("change_ip", None, 0, FALSE, ""))
    /\ UNCHANGED <<ip, new_ip, ret, vnic_public_ip, files, obs>>

\* A change_ip that allocates without releasing the address it found.
AfterLookup_skip_release(found) == "ci_create"

\* Lines 217-223 with the lookup's result: an id found goes on to the delete,
\* no id is a warning and the allocation follows.
AfterLookup(found) == IF found THEN "ci_delete" ELSE "ci_create"

\* Lines 206-215: list_public_ips raises, or the list holds an object with
\* the VNIC's address, or it does not.
change_ip_list(e) ==
    /\ pc[e] = "ci_list"
    /\ \E out \in {"raise", "found", "missing"} :
         /\ pc' = IF out = "raise" THEN Raise(e)
                  ELSE [pc EXCEPT ![e] = AfterLookup(out = "found")]
         /\ trace' = Log(e, Ev("lookup", vnic[e], 0, out # "raise", out))
    /\ UNCHANGED <<ip, new_ip, vnic, ret, vnic_public_ip, files, obs>>

\* Line 219 when delete_public_ip raises: the exception leaves change_ip,
\* whatever the provider's error was (a 404 for an address already gone too).
AfterDeleteRaise(e, out) == Raise(e)

\* Line 219: delete_public_ip returns (the address is released), or raises
\* because the address is already gone ("not_found"), or raises otherwise.
change_ip_delete(e) ==
    /\ pc[e] = "ci_delete"
    /\ \E out \in {"ok", "not_found", "error"} :
         /\ pc' = IF out = "ok" THEN [pc EXCEPT ![e] = "ci_settle_release"]
                  ELSE AfterDeleteRaise(e, out)
         /\ vnic_public_ip' = IF out = "error" THEN vnic_public_ip
                              ELSE [vnic_public_ip EXCEPT ![e] = None]
         /\ trace' = Log(e, Ev("release", vnic[e], 0, out = "ok", out))
    /\ UNCHANGED <<ip, new_ip, vnic, ret, files, obs>>

\* Line 221: time.sleep(10) after the release.
change_ip_settle_release(e) ==
    /\ pc[e] = "ci_settle_release"
    /\ pc' = [pc EXCEPT ![e] = "ci_create"]
    /\ trace' = Log(e, Ev("settle_release", None, 0, TRUE, ""))
    /\ UNCHANGED <<ip, new_ip, vnic, ret, vnic_public_ip, files, obs>>

\* The addresses create_public_ip may assign: the provider knows nothing of
\* the history file, and change_ip hands it none of it.
Assignable(e) == Addrs

\* Lines 227-236: create_public_ip raises, or assigns the VNIC an ephemeral
\* address of the provider's choice.
change_ip_create(e) ==
    /\ pc[e] = "ci_create"
    /\ tracking => Len(assigned[e]) < MaxRotations
    /\ \/ /\ pc' = Raise(e)
          /\ trace' = Log(e, Ev("allocate", None, 0, FALSE, ""))
          /\ UNCHANGED <<vnic_public_ip, alloc_ok>>
       \/ \E a \in Assignable(e) :
            /\ vnic_public_ip' = [vnic_public_ip EXCEPT ![e] = a]
            /\ pc' = [pc EXCEPT ![e] = "ci_settle_alloc"]
            /\ trace' = Log(e, Ev("allocate", a, 0, TRUE, ""))
            /\ alloc_ok' = [alloc_ok EXCEPT ![e] = TRUE]
    /\ UNCHANGED <<ip, new_ip, vnic, ret, files, tracking, assigned, sup>>

\* Line 239: time.sleep(15) after the allocation.
change_ip_settle_alloc(e) ==
    /\ pc[e] = "ci_settle_alloc"
    /\ pc' = [pc EXCEPT ![e] = "ci_readback"]
    /\ trace' = Log(e, Ev("settle_alloc", None, 0, TRUE, ""))
    /\ UNCHANGED <<ip, new_ip, vnic, ret, vnic_public_ip, files, obs>>

\* Lines 242-243: get_vnic again; new_ip is the public_ip it shows.
change_ip_readback(e) ==
    /\ pc[e] = "ci_readback"
    /\ \E ok \in BOOLEAN :
         IF ok
         THEN /\ new_ip' = [new_ip EXCEPT ![e] = vnic_public_ip[e]]
              /\ pc' = [pc EXCEPT ![e] = "ci_record"]
              /\ trace' = Log(e, Ev("readback", vnic_public_ip[e], 0, TRUE, ""))
         ELSE /\ new_ip' = new_ip
              /\ pc' = Raise(e)
              /\ trace' = Log(e, Ev("readback", None, 0, FALSE, ""))
    /\ UNCHANGED <<ip, vnic, ret, vnic_public_ip, files, obs>>

\* Lines 246-249: record_ip(new_ip), then return (old_ip, new_ip); the first
\* call site (line 278) assigns the result to `ip`.
change_ip_record(e) ==
    /\ pc[e] = "ci_record"
    /\ files' = [files EXCEPT ![ip_history_file(e)] = record_ip(@, new_ip[e])]
    /\ trace' = Log(e, Ev("record", new_ip[e], 0, TRUE, ""))
    /\ ip' = [ip EXCEPT ![e] = IF ret[e] = "assign" THEN new_ip[e] ELSE @]
    /\ pc' = [pc EXCEPT ![e] = AfterChangeIpReturn(ret[e])]
    /\ assigned' = IF tracking THEN [assigned EXCEPT ![e] = Append(@, new_ip[e])]
                   ELSE assigned
    /\ UNCHANGED <<new_ip, vnic, ret, vnic_public_ip, alloc_ok, tracking, sup>>

\* ------------------------------------------------------- main program
\* The servers of account a that have no thread yet (account["servers"], in
\* the order of the list).
Remaining(a, thr) == {e \in Endpoints : config.account[e] = a /\ ~InList(e, thr)}

\* The `for account in accounts` loop moving on: the next account, or the
\* joins of lines 368-369 after the last one.
AfterAccount(a) ==
    IF a < NumAccounts THEN [pc |-> "account", account |-> a + 1, joined |-> 0]
    ELSE [pc |-> "join", account |-> a, joined |-> 0]

\* A failed account that ends the start-up: the later accounts are skipped.
AfterClients_abort(ok, a, left) ==
    IF ok /\ left # {} THEN [pc |-> "servers", account |-> a, joined |-> 0]
    ELSE IF ok THEN AfterAccount(a)
    ELSE [pc |-> "join", account |-> a, joined |-> 0]

\* Lines 352-365: after init_oci_clients returned the servers of the account
\* are started; after it raised the handler logs and `continue`s.
AfterClients(ok, a, left) ==
    IF ok /\ left # {} THEN [pc |-> "servers", account |-> a, joined |-> 0]
    ELSE AfterAccount(a)

\* Lines 346-350 with init_oci_clients (74-86): the clients of account a are
\* built, or the exception is logged and raised again.
init_oci_clients(a) ==
    /\ main.pc = "account"
    /\ main.account = a
    /\ \E ok \in BOOLEAN :
         /\ clients' = [clients EXCEPT ![a] = IF ok THEN "ok" ELSE "failed"]
         /\ main' = AfterClients(ok, a, Remaining(a, threads))
    /\ UNCHANGED <<pc, ip, new_ip, vnic, ret, vnic_public_ip, files, trace,
                   alloc_ok, tracking, assigned, config, threads, attached>>

\* Lines 353-361: the next server of the account gets a thread running
\* monitor_server, appended to `threads` and started.
start_thread(e) ==
    /\ main.pc = "servers"
    /\ e \in Remaining(main.account, threads)
    /\ \A o \in Remaining(main.account, threads) : e <= o
    /\ pc[e] = "unstarted"
    /\ pc' = [pc EXCEPT ![e] = "start"]
    /\ threads' = Append(threads, e)
    /\ main' = IF Remaining(main.account, threads) = {e}
               THEN AfterAccount(main.account) ELSE main
    /\ UNCHANGED <<ip, new_ip, vnic, ret, vnic_public_ip, files, trace,
                   alloc_ok, tracking, assigned, config, clients, attached>>

\* A join that does not wait for its thread.
Joinable_at_once(e) == TRUE

\* thread.join() returns when the thread has ended.
Joinable(e) == pc[e] \in Terminal

\* Lines 368-369: thread.join() on each thread in turn.  After the last join
\* the program ends.
join(k) ==
    /\ main.pc = "join"
    /\ k = main.joined + 1
    /\ IF k <= Len(threads)
       THEN /\ Joinable(threads[k])
            /\ main' = [main EXCEPT !.joined = k]
       ELSE main' = [main EXCEPT !.pc = "done"]
    /\ UNCHANGED <<pc, ip, new_ip, vnic, ret, vnic_public_ip, files, trace,
                   alloc_ok, tracking, assigned, config, clients, threads, attached>>

\* ------------------------------------------------------ specifications
\* A history file this program can have left behind: absent, or one line
\* per address, no address twice.
RECURSIVE Text(_)
Text(l) == IF l = <<>> THEN <<>> ELSE Str(Head(l)) \o <<NL>> \o Text(Tail(l))

NoDup(l) == \A i, j \in 1..Len(l) : l[i] = l[j] => i = j

Histories == {l \in UNION {[1..n -> Addrs] : n \in 0..NumAddrs} : NoDup(l)}

InitialFiles == {NoFile} \cup {[exists |-> TRUE, data |-> Text(l)] : l \in Histories}

\* The loop of lines 271-314 on its own: monitor 1 at the top of its
\* `while True` with an OCIAPI object built by __init__ and a check_server_url
\* set; the other servers have no thread.  (monitor_server itself does not get
\* here: see monitor_server_start.)
LoopInit ==
    /\ config = DefaultConfig
    /\ main = [pc |-> "servers", account |-> 1, joined |-> 0]
    /\ clients = [a \in Accounts |-> IF a = 1 THEN "ok" ELSE "-"]
    /\ threads = <<1>>
    /\ attached = [e \in Endpoints |-> TRUE]
    /\ pc = [e \in Endpoints |-> IF e = 1 THEN "fetch" ELSE "unstarted"]
    /\ ip = [e \in Endpoints |-> None]
    /\ new_ip = [e \in Endpoints |-> None]
    /\ vnic = [e \in Endpoints |-> None]
    /\ ret = [e \in Endpoints |-> "-"]
    /\ vnic_public_ip \in [Endpoints -> Addrs \cup {None}]
    /\ \A e \in Endpoints : pc[e] = "unstarted" => vnic_public_ip[e] = None
    /\ files \in [FileNames -> InitialFiles]
    /\ \A e \in Endpoints : pc[e] = "unstarted" => files[ip_history_file(e)] = NoFile
    /\ trace = [e \in Endpoints |-> <<>>]
    /\ alloc_ok = [e \in Endpoints |-> FALSE]
    /\ tracking = FALSE
    /\ assigned = [e \in Endpoints |-> <<>>]

Step(e) ==
        \/ get_ip(e)
        \/ check(e)
        \/ recheck(e)
        \/ sleep(e)
        \/ change_ip_get_vnic(e)
        \/ change_ip_list(e)
        \/ change_ip_delete(e)
        \/ change_ip_settle_release(e)
        \/ change_ip_create(e)
        \/ change_ip_settle_alloc(e)
        \/ change_ip_readback(e)
        \/ change_ip_record(e)

LoopNext == \E e \in Endpoints : Step(e)

LoopSpec == LoopInit /\ [][LoopNext]_vars

\* A run of the loop from an empty history (no file yet, or an empty one)
\* that keeps the log of the addresses its rotations assigned and follows
\* MaxRotations of them.
HistoryInit ==
    /\ config = DefaultConfig
    /\ main = [pc |-> "servers", account |-> 1, joined |-> 0]
    /\ clients = [a \in Accounts |-> IF a = 1 THEN "ok" ELSE "-"]
    /\ threads = <<1>>
    /\ attached = [e \in Endpoints |-> TRUE]
    /\ pc = [e \in Endpoints |-> IF e = 1 THEN "fetch" ELSE "unstarted"]
    /\ ip = [e \in Endpoints |-> None]
    /\ new_ip = [e \in Endpoints |-> None]
    /\ vnic = [e \in Endpoints |-> None]
    /\ ret = [e \in Endpoints |-> "-"]
    /\ vnic_public_ip \in [Endpoints -> Addrs \cup {None}]
    /\ \A e \in Endpoints : pc[e] = "unstarted" => vnic_public_ip[e] = None
    /\ files \in [FileNames -> {NoFile, [exists |-> TRUE, data |-> <<>>]}]
    /\ \A e \in Endpoints : pc[e] = "unstarted" => files[ip_history_file(e)] = NoFile
    /\ trace = [e \in Endpoints |-> <<>>]
    /\ alloc_ok = [e \in Endpoints |-> FALSE]
    /\ tracking = TRUE
    /\ assigned = [e \in Endpoints |-> <<>>]

HistorySpec == HistoryInit /\ [][LoopNext]_vars

\* record_ip on its own, on the history file of server 1: self.record_ip(a)
\* twice in a row, then self.record_ip(b) twice in a row; new_ip[e] holds a
\* and ip[e] holds b.
RecordArg(e) == IF pc[e] \in {"record_a1", "record_a2"} THEN new_ip[e] ELSE ip[e]

RecordPcAfter(p) ==
    CASE p = "record_a1" -> "record_a2"
      [] p = "record_a2" -> "record_b1"
      [] p = "record_b1" -> "record_b2"
      [] OTHER -> "recorded"

record_ip_call(e) ==
    /\ pc[e] \in {"record_a1", "record_a2", "record_b1", "record_b2"}
    /\ files' = [files EXCEPT ![ip_history_file(e)] = record_ip(@, RecordArg(e))]
    /\ pc' = [pc EXCEPT ![e] = RecordPcAfter(@)]
    /\ UNCHANGED <<ip, new_ip, vnic, ret, vnic_public_ip, trace, obs>>

RecordInit ==
    /\ config = DefaultConfig
    /\ main = [pc |-> "servers", account |-> 1, joined |-> 0]
    /\ clients = [a \in Accounts |-> IF a = 1 THEN "ok" ELSE "-"]
    /\ threads = <<1>>
    /\ attached = [e \in Endpoints |-> TRUE]
    /\ pc = [e \in Endpoints |-> IF e = 1 THEN "record_a1" ELSE "unstarted"]
    /\ ip \in [Endpoints -> Addrs \cup {None}]
    /\ new_ip \in [Endpoints -> Addrs \cup {None}]
    /\ \A e \in Endpoints : pc[e] = "unstarted" => (ip[e] = None /\ new_ip[e] = None)
    /\ vnic = [e \in Endpoints |-> None]
    /\ ret = [e \in Endpoints |-> "-"]
    /\ vnic_public_ip = [e \in Endpoints |-> None]
    /\ files \in [FileNames -> InitialFiles]
    /\ \A e \in Endpoints : pc[e] = "unstarted" => files[ip_history_file(e)] = NoFile
    /\ trace = [e \in Endpoints |-> <<>>]
    /\ alloc_ok = [e \in Endpoints |-> FALSE]
    /\ tracking = FALSE
    /\ assigned = [e \in Endpoints |-> <<>>]

RecordNext == \E e \in Endpoints : record_ip_call(e)

RecordSpec == RecordInit /\ [][RecordNext]_vars

\* remote_check on its own: CheckConnection.remote_check(ip, port, url)
\* called twice in a row for an address of server 1, each call with any
\* response of the check service; the trace keeps each response next to
\* what remote_check made of it.
remote_check_call(e) ==
    /\ pc[e] \in {"call_1", "call_2"}
    /\ \E resp \in Responses :
         trace' = Log(e, Ev("remote_check", ip[e], port(e), remote_check(resp), resp))
    /\ pc' = [pc EXCEPT ![e] = IF @ = "call_1" THEN "call_2" ELSE "called"]
    /\ UNCHANGED <<ip, new_ip, vnic, ret, vnic_public_ip, files, obs>>

CheckInit ==
    /\ config = DefaultConfig
    /\ main = [pc |-> "servers", account |-> 1, joined |-> 0]
    /\ clients = [a \in Accounts |-> IF a = 1 THEN "ok" ELSE "-"]
    /\ threads = <<1>>
    /\ attached = [e \in Endpoints |-> TRUE]
    /\ pc = [e \in Endpoints |-> IF e = 1 THEN "call_1" ELSE "unstarted"]
    /\ ip \in [Endpoints -> Addrs \cup {None}]
    /\ \A e \in Endpoints : pc[e] = "unstarted" <=> ip[e] = None
    /\ new_ip = [e \in Endpoints |-> None]
    /\ vnic = [e \in Endpoints |-> None]
    /\ ret = [e \in Endpoints |-> "-"]
    /\ vnic_public_ip = ip
    /\ files = [f \in FileNames |-> NoFile]
    /\ trace = [e \in Endpoints |-> <<>>]
    /\ alloc_ok = [e \in Endpoints |-> FALSE]
    /\ tracking = FALSE
    /\ assigned = [e \in Endpoints |-> <<>>]

CheckNext == \E e \in Endpoints : remote_check_call(e)

CheckSpec == CheckInit /\ [][CheckNext]_vars

\* The program from the start of its account loop (line 337), under any
\* configuration: no thread yet, no client built, every server with a
\* public address of its own as far as there are addresses.
ProgramInit ==
    /\ config \in Configs
    /\ main = [pc |-> "account", account |-> 1, joined |-> 0]
    /\ clients = [a \in Accounts |-> "-"]
    /\ threads = <<>>
    /\ attached = [e \in Endpoints |-> TRUE]
    /\ pc = [e \in Endpoints |-> "unstarted"]
    /\ ip = [e \in Endpoints |-> None]
    /\ new_ip = [e \in Endpoints |-> None]
    /\ vnic = [e \in Endpoints |-> None]
    /\ ret = [e \in Endpoints |-> "-"]
    /\ vnic_public_ip = [e \in Endpoints |-> IF e \in Addrs THEN e ELSE None]
    /\ files = [f \in FileNames |-> NoFile]
    /\ trace = [e \in Endpoints |-> <<>>]
    /\ alloc_ok = [e \in Endpoints |-> FALSE]
    /\ tracking = FALSE
    /\ assigned = [e \in Endpoints |-> <<>>]

\* The steps the program takes from there: the constructor call of line 259
\* ends every monitor, so no step of __init__ or of the loop is among them.
ProgramNext ==
    \/ \E a \in Accounts : init_oci_clients(a)
    \/ \E e \in Endpoints : start_thread(e)
    \/ \E e \in Endpoints : monitor_server_start(e)
    \/ \E k \in 1..(NumEndpoints + 1) : join(k)

ProgramSpec == ProgramInit /\ [][ProgramNext]_vars

\* The servers whose monitor can reach the loop: a check_server_url is set
\* and a vnic_id is configured or can be looked up.
CanLoop(e) ==
    /\ config.check_server_url # ""
    /\ config.vnic_id[e] # "" \/ attached[e]

\* The monitors from the first statement of OCIAPI.__init__ on, as they run
\* under a constructor call that binds its parameters: every server has its
\* thread and the main thread is at its joins.  The configurations are those
\* under which no monitor but the first, with its vnic_id configured, can
\* reach the loop (a vnic_id is looked up where no check_server_url is set),
\* with the instance ids `ids`; the attachments are left open only where they
\* are looked up.
StartupInitWith(ids) ==
    /\ config \in Configs
    /\ \A e \in Endpoints : config.account[e] = 1
    /\ config.instance_id = ids
    /\ main = [pc |-> "join", account |-> NumAccounts, joined |-> 0]
    /\ clients = [a \in Accounts |-> "ok"]
    /\ threads = [i \in Endpoints |-> i]
    /\ attached \in [Endpoints -> BOOLEAN]
    /\ \A e \in Endpoints : attached[e] => config.vnic_id[e] = ""
    /\ \A e \in Endpoints : CanLoop(e) => (e = 1 /\ config.vnic_id[e] # "")
    /\ pc = [e \in Endpoints |-> "oci_init"]
    /\ ip = [e \in Endpoints |-> None]
    /\ new_ip = [e \in Endpoints |-> None]
    /\ vnic = [e \in Endpoints |-> None]
    /\ ret = [e \in Endpoints |-> "-"]
    /\ vnic_public_ip = [e \in Endpoints |-> None]
    /\ files = [f \in FileNames |-> NoFile]
    /\ trace = [e \in Endpoints |-> <<>>]
    /\ alloc_ok = [e \in Endpoints |-> FALSE]
    /\ tracking = FALSE
    /\ assigned = [e \in Endpoints |-> <<>>]

\* No two instance ids with the same suffix.
StartupInit == StartupInitWith([e \in Endpoints |-> InstanceId(e, e)])

StartupNext ==
    \/ \E e \in Endpoints : OCIAPI_init(e)
    \/ \E e \in Endpoints : url_check(e)
    \/ \E e \in Endpoints : Step(e)
    \/ \E k \in 1..(NumEndpoints + 1) : join(k)

StartupSpec == StartupInit /\ [][StartupNext]_vars

\* The same monitors when all instance ids end in the same SuffixLen
\* characters.
SharedFileInit == StartupInitWith([e \in Endpoints |-> InstanceId(e, 0)])

SharedFileSpec == SharedFileInit /\ [][StartupNext]_vars

\* ------------------------------------------------------------ claims
Started(e) == pc[e] # "unstarted"

Last(t) == t[Len(t)]

\* The number of events of operation op in the cycle's trace.
Count(t, op) == Cardinality({i \in 1..Len(t) : t[i].op = op})

\* The calls inside change_ip that can raise.
ChangeIpCalls == {"change_ip", "lookup", "release", "allocate", "readback"}

\* C1: in a cycle whose get_ip yields no address, the monitor's next external
\* action is change_ip; no remote_check comes between the two.
C1_NoAddressGoesToChangeIp ==
    \A e \in Endpoints :
        LET t == trace[e]
        IN  (Started(e) /\ Len(t) >= 1 /\ t[1].op = "get_ip" /\ t[1].ip = None)
            => IF Len(t) = 1 THEN pc[e] = "ci_get_vnic" ELSE t[2].op = "change_ip"

C1_Witness ==
    \E e \in Endpoints :
        LET t == trace[e]
        IN  /\ Len(t) >= 2 /\ t[1].op = "get_ip" /\ t[1].ip = None
            /\ t[2].op = "change_ip"
            /\ \E i \in 1..Len(t) : t[i].op = "allocate"

\* C2: in a cycle whose get_ip yields an address, remote_check is called with
\* that address and the server's port; change_ip is attempted in the cycle
\* exactly when the result was not reachable, and a reachable result ends the
\* cycle with no release and no allocation.
C2_RotateIffNotReachable ==
    \A e \in Endpoints :
        LET t == trace[e]
        IN  (Started(e) /\ Len(t) >= 1 /\ t[1].op = "get_ip" /\ t[1].ip # None)
            => /\ Len(t) = 1 => pc[e] = "check"
               /\ Len(t) >= 2 =>
                    /\ t[2].op = "remote_check"
                    /\ t[2].ip = t[1].ip
                    /\ t[2].port = port(e)
                    /\ t[2].ok =>
                         /\ \A i \in 1..Len(t) :
                                t[i].op \notin {"change_ip", "release", "allocate"}
                         /\ IF Len(t) = 2 THEN pc[e] = "sleep"
                            ELSE Len(t) = 3 /\ t[3].op = "sleep"
                    /\ ~t[2].ok =>
                         IF Len(t) = 2 THEN pc[e] = "ci_get_vnic"
                         ELSE t[3].op = "change_ip"

C2_Witness ==
    \E e \in Endpoints :
        LET t == trace[e]
        IN  /\ Len(t) >= 3 /\ t[1].ip # None
            /\ t[2].op = "remote_check" /\ ~t[2].ok
            /\ t[3].op = "change_ip"
            /\ Last(t).op = "sleep"

\* C3 as claimed: at most one change_ip is attempted in a cycle, whatever path
\* the cycle takes.
C3_AtMostOneRotation ==
    \A e \in Endpoints : Count(trace[e], "change_ip") <= 1

\* C3 as amended: at most one change_ip in a cycle whose get_ip found an
\* address; at most two in a cycle whose get_ip found none, the second only
\* after the first returned and the check of the address it assigned was not
\* reachable; and no change_ip follows the re-check of line 300.
C3_RotationsPerCycle ==
    \A e \in Endpoints :
        LET t == trace[e]
            rot == {i \in 1..Len(t) : t[i].op = "change_ip"}
        IN  /\ Len(t) >= 1 /\ t[1].ip # None => Cardinality(rot) <= 1
            /\ Cardinality(rot) <= 2
            /\ \A i, j \in rot : i < j =>
                   /\ t[j - 1].op = "remote_check" /\ ~t[j - 1].ok
                   /\ t[j - 2].op = "record"
            /\ \A i, j \in 1..Len(t) :
                   (i < j /\ t[i].op = "recheck") => t[j].op = "sleep"
            /\ pc[e] = "recheck" => Count(t, "recheck") = 0

C3_Witness ==
    \E e \in Endpoints :
        /\ Count(trace[e], "change_ip") = 2
        /\ Last(trace[e]).op = "recheck"
        /\ ~Last(trace[e]).ok
        /\ pc[e] = "sleep"

\* C4: a monitor in its loop never stops and never starts a cycle without
\* having slept: at the fetch the last thing done is the sleep, a call of
\* change_ip that raised is followed by nothing but the sleep, get_ip happens
\* once per cycle, and some step of the monitor is always possible.
C4_EveryCycleEndsInSleep ==
    \A e \in Endpoints :
        LET t == trace[e]
        IN  Started(e) =>
            /\ pc[e] = "fetch" => (t = <<>> \/ Last(t).op = "sleep")
            /\ \A i \in 1..Len(t) :
                   /\ (t[i].op \in ChangeIpCalls /\ ~t[i].ok) =>
                          IF i = Len(t) THEN pc[e] = "sleep"
                          ELSE i + 1 = Len(t) /\ t[i + 1].op = "sleep"
                   /\ t[i].op = "get_ip" => i = 1
                   /\ t[i].op = "sleep" => (i = Len(t) /\ pc[e] = "fetch")
            /\ ENABLED Step(e)

C4_Witness ==
    \E e \in Endpoints :
        LET t == trace[e]
        IN  /\ pc[e] = "fetch" /\ Len(t) >= 3
            /\ ~t[1].ok
            /\ \E i \in 1..Len(t) : t[i].op = "release" /\ ~t[i].ok
            /\ Last(t).op = "sleep"

\* C5 as claimed: when the provider call inside get_ip raises, the cycle is
\* aborted: no release call, no allocation call and no history append happen
\* in that cycle.
C5_FetchFailureAbortsCycle ==
    \A e \in Endpoints :
        LET t == trace[e]
        IN  (Started(e) /\ Len(t) >= 1 /\ t[1].op = "get_ip" /\ ~t[1].ok)
            => \A i \in 1..Len(t) : t[i].op \notin {"release", "allocate", "record"}

\* C6 as claimed: when the release step of change_ip finds the address gone
\* (no object for it in the list, or delete_public_ip answering not found),
\* change_ip goes on to create_public_ip.
C6_ReleaseNotFoundProceeds ==
    \A e \in Endpoints :
        LET t == trace[e]
        IN  \A i \in 1..Len(t) :
                (\/ t[i].op = "lookup" /\ t[i].out = "missing"
                 \/ t[i].op = "release" /\ t[i].out = "not_found")
                => IF i = Len(t) THEN pc[e] = "ci_create"
                   ELSE t[i + 1].op = "allocate"

\* C7: as long as no create_public_ip of a server has returned, no step
\* changes its history file, its monitor can always take a step, a cycle holds
\* at most one allocation attempt, and the failed attempt is followed by
\* nothing but the sleep of the poll interval.
C7_NoAllocationState ==
    \A e \in Endpoints :
        LET t == trace[e]
        IN  (Started(e) /\ ~alloc_ok[e]) =>
            /\ Count(t, "allocate") <= 1
            /\ \A i \in 1..Len(t) :
                   t[i].op = "allocate" =>
                       /\ ~t[i].ok
                       /\ IF i = Len(t) THEN pc[e] = "sleep"
                          ELSE i + 1 = Len(t) /\ t[i + 1].op = "sleep" /\ pc[e] = "fetch"
            /\ Count(t, "record") = 0
            /\ ENABLED Step(e)

C7_NoAllocationStep ==
    \A e \in Endpoints :
        ~alloc_ok'[e] => files'[ip_history_file(e)] = files[ip_history_file(e)]

C7_AllocationAlwaysFails == [](C7_NoAllocationState) /\ [][C7_NoAllocationStep]_vars

C7_Witness ==
    \E e \in Endpoints :
        LET t == trace[e]
        IN  /\ ~alloc_ok[e] /\ pc[e] = "fetch" /\ Len(t) >= 2
            /\ t[1].ok /\ t[1].ip = None
            /\ t[Len(t) - 1].op = "allocate" /\ ~t[Len(t) - 1].ok
            /\ Last(t).op = "sleep"

\* The addresses of l in the order of their first occurrence.
RECURSIVE FirstOccurrences(_)
FirstOccurrences(l) ==
    IF l = <<>> THEN <<>>
    ELSE LET front == FirstOccurrences(SubSeq(l, 1, Len(l) - 1))
         IN  IF InList(Last(l), front) THEN front ELSE Append(front, Last(l))

\* C8: from an empty history, after any number of rotations that returned, the
\* history read_ip gives is the sequence of the addresses they assigned, each
\* once, in the order of first assignment.
C8_HistoryIsFirstAssignments ==
    \A e \in Endpoints :
        Started(e) => History(e) = FirstOccurrences(assigned[e])

C8_Witness ==
    \E e \in Endpoints :
        /\ Len(assigned[e]) = 3
        /\ assigned[e][1] = assigned[e][3]
        /\ assigned[e][1] # assigned[e][2]
        /\ Len(History(e)) = 2

\* C9: a second record_ip of the same address leaves the file exactly as the
\* first call left it, and a record_ip of an address already in the history
\* leaves the file as it was.
C9_RecordStep ==
    \A e \in Endpoints :
        LET f == ip_history_file(e)
        IN  /\ pc[e] \in {"record_a2", "record_b2"} => files'[f] = files[f]
            /\ (pc[e] \in {"record_a1", "record_b1"}
                  /\ InList(Str(RecordArg(e)), read_ip(files[f])))
               => files'[f] = files[f]

C9_RecordIdempotent == [][C9_RecordStep]_vars

C9_Witness ==
    \E e \in Endpoints :
        /\ pc[e] = "recorded"
        /\ new_ip[e] # None /\ ip[e] # None /\ ip[e] # new_ip[e]
        /\ Len(History(e)) >= 2
        /\ Last(History(e)) = ip[e]

\* C10 as claimed: the address a rotation has given the server (new_ip, read
\* back at line 243) is never one the history held before the rotation.
C10_NeverReassignsRecorded ==
    \A e \in Endpoints :
        pc[e] = "ci_record" => ~InList(new_ip[e], History(e))

\* C10 as amended: the history does not steer the allocation; a rotation that
\* returns leaves the history unchanged when its new address was already in
\* it, and with the new address appended otherwise.
C10_RecordStep ==
    \A e \in Endpoints :
        (pc[e] = "ci_record" /\ pc'[e] # "ci_record") =>
            IF InList(new_ip[e], History(e))
            THEN History(e)' = History(e)
            ELSE History(e)' = Append(History(e), new_ip[e])

C10_HistoryOnlyRecords == [][C10_RecordStep]_vars

C10_Witness ==
    \E e \in Endpoints :
        /\ Len(trace[e]) >= 1
        /\ Last(trace[e]).op = "record"
        /\ Len(History(e)) >= 2
        /\ History(e)[1] = new_ip[e]

\* The external actions of a cycle that rotates once, in order: the fetch,
\* the check, change_ip (its get_vnic, the lookup, the release and its settle
\* delay, the allocation and its settle delay, the read-back, the record),
\* the re-check and the sleep.
RotationCycle ==
    <<"get_ip", "remote_check", "change_ip", "lookup", "release",
      "settle_release", "allocate", "settle_alloc", "readback", "record",
      "recheck", "sleep">>

\* An event of a cycle that started at address a, as C11 supposes it: the
\* provider fails no call and allocates another address than a, the check
\* service calls a unreachable and every other address reachable.
Supposed(ev, a) ==
    CASE ev.op = "get_ip" -> ev.ok /\ ev.ip = a
      [] ev.op = "remote_check" -> ev.ok = (ev.ip # a)
      [] ev.op = "recheck" -> ev.ok = (ev.ip # a)
      [] ev.op = "lookup" -> ev.out = "found"
      [] ev.op = "release" -> ev.out = "ok"
      [] ev.op = "allocate" -> ev.ok /\ ev.ip # a
      [] OTHER -> ev.ok

\* C11: a monitor of a fully configured server (check_server_url and vnic_id
\* set) does not end without a rotation: its first cycle rotates.
C11_FirstCycleRotates ==
    \A e \in Endpoints :
        (config.check_server_url # "" /\ config.vnic_id[e] # "" /\ pc[e] \in Terminal)
            => alloc_ok[e]

\* C11 from the top of the loop: a cycle that starts at address a and meets
\* what C11 supposes is a prefix of RotationCycle; the allocated address is
\* in the history once recorded, is the address re-checked, and is what the
\* next fetch finds on the VNIC.
C11_LoopRotatesOnce ==
    \A e \in Endpoints :
        LET t == trace[e]
        IN  (Len(t) >= 1 /\ t[1].ip # None /\ \A i \in 1..Len(t) : Supposed(t[i], t[1].ip))
            => /\ Len(t) <= Len(RotationCycle)
               /\ \A i \in 1..Len(t) : t[i].op = RotationCycle[i]
               /\ Len(t) >= 10 => (t[10].ip = t[7].ip /\ InList(t[7].ip, History(e)))
               /\ Len(t) >= 11 => t[11].ip = t[7].ip
               /\ Len(t) = Len(RotationCycle)
                    => (pc[e] = "fetch" /\ vnic_public_ip[e] = t[7].ip)

\* A cycle as C11 supposes it has run to its sleep.
C11_LoopWitness ==
    \E e \in Endpoints :
        LET t == trace[e]
        IN  /\ Len(t) = Len(RotationCycle)
            /\ t[1].ip # None
            /\ \A i \in 1..Len(t) : Supposed(t[i], t[1].ip)

\* What belongs to monitor e alone: its locals, its trace and its VNIC.
Local(e) == <<pc[e], ip[e], new_ip[e], vnic[e], ret[e], trace[e], vnic_public_ip[e]>>

\* The statements of the polling loop.
LoopPcs ==
    {"fetch", "check", "recheck", "sleep", "ci_get_vnic", "ci_list", "ci_delete",
     "ci_settle_release", "ci_create", "ci_settle_alloc", "ci_readback", "ci_record"}

\* A step changes what belongs to one monitor at most.
C12_StepIsLocal ==
    \A e, o \in Endpoints :
        (e # o /\ Local(e)' # Local(e)) => Local(o)' = Local(o)

\* A monitor in its loop has a next step and the process is running,
\* whatever has become of the others.
C12_LoopNeverBlocked ==
    \A e \in Endpoints :
        pc[e] \in LoopPcs => (ENABLED Step(e) /\ main.pc # "done")

IsPrefix(a, b) == Len(a) <= Len(b) /\ SubSeq(b, 1, Len(a)) = a

\* No history store holds an address twice.
C13_StoreState == \A e \in Endpoints : NoDup(History(e))

\* A step that changes the history store of server e is a step of e's own
\* monitor, and it leaves the earlier content as a prefix.
C13_StoreStep ==
    \A e \in Endpoints :
        LET f == files[ip_history_file(e)]
        IN  f' # f => (Local(e)' # Local(e) /\ IsPrefix(f.data, f'.data))

\* C13: the history store of each server is touched by that server's monitor
\* only, grows by appending only and never holds an address twice.
C13_OwnStoreOnly == [](C13_StoreState) /\ [][C13_StoreStep]_vars

\* The accounts the account loop has dealt with.
Settled(a) ==
    \/ main.pc \in {"join", "done"}
    \/ a < main.account

\* C14: no server has two threads; a server has a thread only if
\* init_oci_clients returned for its account; and once the account loop has
\* dealt with an account, init_oci_clients has been tried for it and its
\* servers have a thread exactly if it returned, whatever became of the
\* accounts before and after it.
C14_OneMonitorPerServerOfGoodAccounts ==
    /\ NoDup(threads)
    /\ \A e \in Endpoints :
          /\ Started(e) <=> InList(e, threads)
          /\ Started(e) => clients[config.account[e]] = "ok"
    /\ \A a \in Accounts :
          Settled(a) =>
            /\ clients[a] \in {"ok", "failed"}
            /\ \A e \in Endpoints :
                  config.account[e] = a => (Started(e) <=> clients[a] = "ok")

\* The account loop is over; an account that failed left its server without
\* a thread and the account after it has its server started.
C14_Witness ==
    /\ main.pc = "join"
    /\ \E a, b \in Accounts, e, o \in Endpoints :
          /\ a < b
          /\ clients[a] = "failed" /\ config.account[e] = a /\ ~Started(e)
          /\ clients[b] = "ok" /\ config.account[o] = b /\ Started(o)

\* C15: the monitor of a server with vnic_id and check_server_url configured
\* has no terminal state: its thread never ends.
C15_ConfiguredMonitorNeverEnds ==
    \A e \in Endpoints :
        (config.vnic_id[e] # "" /\ config.check_server_url # "")
            => pc[e] \notin Terminal

\* The tokens of a body.
Tokens(b) == {b[i] : i \in 1..Len(b)}

\* The number of "True" tokens of a body.
Trues(b) == Cardinality({i \in 1..Len(b) : b[i] = "True"})

\* C16 as claimed: remote_check answers reachable only to a body that is
\* exactly the token "True".
C16_ReachableOnlyForExactTrue ==
    \A e \in Endpoints : \A i \in 1..Len(trace[e]) :
        LET ev == trace[e][i]
        IN  (ev.op = "remote_check" /\ ev.ok) => ev.out.body = <<"True">>

\* C16 as amended: remote_check returns a boolean for every response; it
\* answers reachable exactly when the call returned with status 200 and a
\* body that is the one token "True" with nothing but whitespace around it.
C16_FailClosed ==
    \A e \in Endpoints : \A i \in 1..Len(trace[e]) :
        LET ev == trace[e][i]
            r  == ev.out
        IN  ev.op = "remote_check" =>
              /\ ev.ok \in BOOLEAN
              /\ ev.ok <=> /\ ~r.raised
                           /\ r.status = HTTP_OK
                           /\ Trues(r.body) = 1
                           /\ Tokens(r.body) \subseteq {"True", " "}

\* remote_check has answered reachable to a body with whitespace around the
\* token, and unreachable to a 200 response with body "False".
C16_Witness ==
    \E e \in Endpoints :
        /\ Len(trace[e]) = 2
        /\ trace[e][1].ok /\ trace[e][1].out.body = <<" ", "True">>
        /\ ~trace[e][2].ok /\ trace[e][2].out.body = <<"False">>
        /\ trace[e][2].out.status = HTTP_OK

\* The last change_ip event of trace t before position i (0 when none).
RotationStart(t, i) ==
    LET js == {j \in 1..(i - 1) : t[j].op = "change_ip"}
    IN  IF js = {} THEN 0 ELSE CHOOSE j \in js : \A k \in js : k <= j

\* C17 as claimed: an allocation in a rotation that found an address on the
\* VNIC comes after the release of that address and its settle delay, and
\* every rotation of a cycle comes after a check of the cycle.
C17_ReleaseAndCheckFirst ==
    \A e \in Endpoints :
        LET t == trace[e]
        IN  \A i \in 1..Len(t) :
              /\ (t[i].op = "allocate" /\ t[RotationStart(t, i)].ip # None)
                    => \E j \in RotationStart(t, i)..(i - 1) :
                         t[j].op = "release" /\ t[j].ok /\ t[j + 1].op = "settle_release"
              /\ t[i].op = "change_ip"
                    => \E j \in 1..(i - 1) : t[j].op = "remote_check"

\* What may come directly before an event of a cycle.
Follows(prev, ev) ==
    CASE ev.op = "remote_check" ->
             \/ prev.op = "get_ip" /\ prev.ip # None
             \/ prev.op = "record"
      [] ev.op = "change_ip" ->
             \/ prev.op = "get_ip" /\ prev.ip = None
             \/ prev.op = "remote_check" /\ ~prev.ok
      [] ev.op = "lookup" -> prev.op = "change_ip" /\ prev.ok /\ prev.ip # None
      [] ev.op = "release" -> prev.op = "lookup" /\ prev.out = "found"
      [] ev.op = "settle_release" -> prev.op = "release" /\ prev.ok
      [] ev.op = "allocate" ->
             \/ prev.op = "settle_release"
             \/ prev.op = "lookup" /\ prev.out = "missing"
             \/ prev.op = "change_ip" /\ prev.ok /\ prev.ip = None
      [] ev.op = "settle_alloc" -> prev.op = "allocate" /\ prev.ok
      [] ev.op = "readback" -> prev.op = "settle_alloc"
      [] ev.op = "record" -> prev.op = "readback" /\ prev.ok
      [] ev.op = "recheck" -> prev.op = "record"
      [] ev.op = "sleep" -> prev.op # "sleep"
      [] OTHER -> FALSE

\* C17 as amended: a cycle starts with its fetch and ends with its sleep; a
\* release comes only after a lookup that found the address, is followed by
\* its settle delay and then by the allocation; an allocation without a
\* release before it follows a lookup that did not find the address or a VNIC
\* without address; allocation, settle delay, read-back and record follow one
\* another in this order; a cycle that fetched an address checks it before
\* any change_ip, a cycle that fetched none calls change_ip before any check.
C17_CycleOrder ==
    \A e \in Endpoints :
        LET t == trace[e]
        IN  /\ Len(t) >= 1 => t[1].op = "get_ip"
            /\ \A i \in 2..Len(t) :
                  /\ Follows(t[i - 1], t[i])
                  /\ t[i].op = "sleep" => i = Len(t)

\* A cycle has released an address, allocated and recorded a new one,
\* re-checked it and gone to sleep.
C17_Witness ==
    \E e \in Endpoints :
        LET t == trace[e]
        IN  /\ Len(t) >= 1 /\ Last(t).op = "sleep"
            /\ \E i, j, k \in 1..Len(t) :
                  /\ i < j /\ j < k
                  /\ t[i].op = "release" /\ t[i].ok
                  /\ t[j].op = "allocate" /\ t[j].ok
                  /\ t[k].op = "record"

\* The checks of the check service in a trace.
Checks == {"remote_check", "recheck"}

C19_NoCycleState ==
    config.check_server_url = "" =>
        \A e \in Endpoints :
            /\ pc[e] \notin LoopPcs
            /\ trace[e] = <<>>
            /\ ~alloc_ok[e]

\* A monitor that has ended stays ended, and its end changes nothing that
\* belongs to another monitor.
C19_ExitStep ==
    \A e \in Endpoints :
        /\ pc[e] \in Terminal => pc'[e] = pc[e]
        /\ (pc[e] \notin Terminal /\ pc'[e] \in Terminal)
              => \A o \in Endpoints \ {e} : Local(o)' = Local(o)

\* C19: a monitor started without check_server_url ends before its first
\* cycle, with no fetch, no check, no release and no allocation; it is not
\* started again, and its end leaves the other monitors as they are.
C19_NoUrlNoCycle == [](C19_NoCycleState) /\ [][C19_ExitStep]_vars

\* Two monitors have returned at the test of line 266, one of them after
\* its vnic_id was looked up, and the program has ended.
C19_Witness ==
    /\ config.check_server_url = ""
    /\ main.pc = "done"
    /\ \E e, o \in Endpoints :
          /\ e # o
          /\ pc[e] = "exited" /\ pc[o] = "exited"
          /\ config.vnic_id[o] = ""

====
